---------------------------- MODULE Spec2Model ----------------------------
(***************************************************************************)
(* citizensafe-app, server/app.py and server/escalation_model_service.py:  *)
(* the fake-report verification cascade (auto_verify_report,               *)
(* detect_fake_report), the credibility ledger kept in the users           *)
(* collection, the Gemini retry wrapper and the escalation override chain. *)
(*                                                                         *)
(* Confidences and probabilities are integers in hundredths (0.95 = 95).   *)
(* A report text is a record of the surface properties the code looks at:  *)
(* its word count, the vocabulary it contains and the outcome of the       *)
(* character-level checks.                                                 *)
(***************************************************************************)
EXTENDS Integers, Sequences, FiniteSets, TLC

VARIABLES
    ledger,       \* users/{user}: whether credibilityScore is stored, and its value
    reports,      \* ids of the documents in the reports collection
    flagged,      \* ids of the documents in the flagged_reports collection
    geminiKey,    \* GEMINI_API_KEY is configured
    ml,           \* ML_LOADING_ATTEMPTED, ML_FAKE_MODEL, ML_EMBEDDER
    pc,           \* per request worker: position in its handler
    req,          \* per worker: the request being handled
    loc,          \* per worker: the handler's local variables
    resp,         \* per worker: the response returned
    nreq,         \* requests accepted so far
    rt,           \* call_gemini_with_retry called on its own: loop state
    esc,          \* predict_escalation_risk: input and result
    ct,           \* predict_crime_type and auto_extract_and_classify: input and result
    mlv,          \* the ML tier's mapping of a prediction: input and result
    qf,           \* _quick_fake_check applied to two texts: inputs and results
    ll            \* lazy_load_ml_model called by concurrent request threads

vars == <<ledger, reports, flagged, geminiKey, ml, pc, req, loc, resp, nreq, rt, esc, ct, mlv, qf, ll>>

-----------------------------------------------------------------------------
(* Bounds of the model *)

\* request workers that may run at the same time
NProcs == 2
\* requests accepted in one behaviour
MaxRequests == 2
\* largest max_retries tried when the wrapper is called on its own
MaxRetriesBound == 3
\* largest initial_wait tried when the wrapper is called on its own
MaxInitialWait == 2

Procs == 1..NProcs

-----------------------------------------------------------------------------
(* Program constants *)

DefaultScore == 50
MinScore == 0
MaxScore == 100
UploadThreshold == 20
PenaltyCap == 25
SuspiciousAt == 8
ShortReportWords == 10
HandlerMaxRetries == 2
HandlerInitialWait == 1

\* the reporter's record holds no credibilityScore (or there is no record)
NoScore == [has |-> FALSE, score |-> 0]
Stored(n) == [has |-> TRUE, score |-> n]

Min(a, b) == IF a < b THEN a ELSE b
Max(a, b) == IF a > b THEN a ELSE b

-----------------------------------------------------------------------------
(* Report texts *)

\* Vocabulary a report may contain; every keyword list of the code is
\* restricted to it (the code matches keywords as substrings of the
\* lower-cased text).
weapon_keywords == {"gun"}
kidnap_keywords == {"kidnapped"}
joke_keywords == {"lol", "just testing"}
disclaimer_phrases == {"just testing", "this is fake"}
implausible_patterns == {"1000", "million"}
crime_keywords == {"gun", "kidnapped", "stolen"}
non_crime_keywords == {"order"}

Txt(n, toks) ==
    [words |-> n, toks |-> toks, lowVowel |-> FALSE, clusters |-> FALSE,
     oddWords |-> FALSE, contradiction |-> FALSE, punct |-> FALSE,
     caps |-> FALSE, vague |-> FALSE]

\* The report texts submitted in the model.
Texts ==
    { Txt(5, {"lol", "gun"}),                \* "lol he has a gun"
      Txt(3, {"kidnapped"}),                 \* "she was kidnapped"
      Txt(6, {"order"}),                     \* "my food order never arrived today"
      Txt(12, {"stolen"}),                   \* a detailed theft report
      Txt(12, {"order"}) }                   \* a detailed delivery complaint

Hit(t, keywords) == (t.toks \cap keywords) # {}
B(cond, n) == IF cond THEN n ELSE 0

\* app.py _quick_fake_check: the penalty before the cap
RawPenalty_JokeAssigns(t, score) ==
      (IF Hit(t, joke_keywords) THEN 20
       ELSE B(t.words <= 5 /\ t.lowVowel, 20)
          + B(t.words <= 5 /\ t.clusters, 20)
          + B(t.words <= 5 /\ t.oddWords, 20)
          + (IF t.words < 5 THEN 5 ELSE IF t.words < 10 THEN 2 ELSE 0))
    + 8 * Cardinality(t.toks \cap implausible_patterns)
    + B(t.contradiction, 3)
    + B(t.punct, 3)
    + B(t.caps, 3)
    + B(t.vague, 4)
    + B(Hit(t, disclaimer_phrases), 15)
    + B(score < 25, 5)
    + B(~Hit(t, crime_keywords) /\ t.words >= 5,
        10 + B(Hit(t, non_crime_keywords), 12))
RawPenalty(t, score) ==
      B(t.words <= 5 /\ t.lowVowel, 20)
    + B(t.words <= 5 /\ t.clusters, 20)
    + B(t.words <= 5 /\ t.oddWords, 20)
    + (IF t.words < 5 THEN 5 ELSE IF t.words < 10 THEN 2 ELSE 0)
    + B(Hit(t, joke_keywords), 20)
    + 8 * Cardinality(t.toks \cap implausible_patterns)
    + B(t.contradiction, 3)
    + B(t.punct, 3)
    + B(t.caps, 3)
    + B(t.vague, 4)
    + B(Hit(t, disclaimer_phrases), 15)
    + B(score < 25, 5)
    + B(~Hit(t, crime_keywords) /\ t.words >= 5,
        10 + B(Hit(t, non_crime_keywords), 12))

_quick_fake_check_Cap20(t, score) ==
    LET penalty == RawPenalty(t, score)
    IN  [is_suspicious |-> penalty >= SuspiciousAt,
         confidence |-> Min(20 + penalty * 3, 95),
         penalty |-> Min(penalty, 20)]
_quick_fake_check(t, score) ==
    LET penalty == RawPenalty(t, score)
    IN  [is_suspicious |-> penalty >= SuspiciousAt,
         confidence |-> Min(20 + penalty * 3, 95),
         penalty |-> Min(penalty, PenaltyCap)]

-----------------------------------------------------------------------------
(* The ML oracle: lazy loading and prediction *)

MLInit == [attempted |-> FALSE, model |-> FALSE, embedder |-> FALSE]

\* What the first load attempt meets: the artifacts are missing or the load
\* fails before ML_FAKE_MODEL is assigned; the load fails after
\* ML_FAKE_MODEL is assigned and before ML_EMBEDDER is; it succeeds.
LoadOutcomes == {"no_model", "fail_partial", "ok"}

\* app.py lazy_load_ml_model: the new globals and the value returned
lazy_load_ml_model(m, outcome) ==
    IF m.attempted
    THEN [ml |-> m, ret |-> m.model]
    ELSE CASE outcome = "no_model" ->
                [ml |-> [attempted |-> TRUE, model |-> FALSE, embedder |-> FALSE],
                 ret |-> FALSE]
           [] outcome = "fail_partial" ->
                [ml |-> [attempted |-> TRUE, model |-> TRUE, embedder |-> FALSE],
                 ret |-> FALSE]
           [] OTHER ->
                [ml |-> [attempted |-> TRUE, model |-> TRUE, embedder |-> TRUE],
                 ret |-> TRUE]

\* Confidences the classifier reports (max of predict_proba), in hundredths
MLConfidences == {55, 65, 90, 97}
MLOutcomes ==
    {[raised |-> TRUE, is_fake |-> FALSE, confidence |-> 0]} \cup
    [raised : {FALSE}, is_fake : BOOLEAN, confidence : MLConfidences]

\* app.py predict_fake_with_ml_model, called after lazy_load_ml_model has run
predict_fake_with_ml_model(m, out) ==
    IF ~lazy_load_ml_model(m, "no_model").ret THEN [out EXCEPT !.raised = TRUE]
    ELSE IF ~m.model \/ ~m.embedder THEN [out EXCEPT !.raised = TRUE]
    ELSE out

-----------------------------------------------------------------------------
(* call_gemini_with_retry *)

\* An error raised by model.generate_content: the upstream condition, and
\* which of the markers the wrapper searches for its message contains.
RateLimitMarkers == {"429", "resource exhausted", "quota"}
Errors ==
    [kind : {"rate_limit"},
     msg : {{"429"}, {"resource exhausted"}, {"quota"}, RateLimitMarkers}] \cup
    [kind : {"other"}, msg : {{}}]
Ok == [kind |-> "ok", msg |-> {}]
GenerateOutcomes == {Ok} \cup Errors

\* app.py line 345
is_rate_limit_Always(e) == TRUE
is_rate_limit(e) == (e.msg \cap RateLimitMarkers) # {}

\* the retry test of line 347
ShouldRetry_OffByOne(e, attempt, max_retries) == is_rate_limit(e) /\ attempt <= max_retries
ShouldRetry(e, attempt, max_retries) == is_rate_limit(e) /\ attempt < max_retries

\* line 351: the wait doubles
wait_time_Linear(wait_time) == wait_time + 1
wait_time_Doubled(wait_time) == wait_time * 2

\* the loop's state when call_gemini_with_retry is entered
RetryStart(max_retries, initial_wait) ==
    [status |-> IF max_retries + 1 > 0 THEN "running" ELSE "none",
     attempt |-> 0, wait_time |-> initial_wait, initial_wait |-> initial_wait,
     max_retries |-> max_retries,
     calls |-> 0, slept |-> <<>>, error |-> Ok]

\* one iteration of the for loop: generate_content is invoked with outcome o
\* (last_error is assigned and never read; error is the exception raised)
RetryIter(s, o) ==
    IF o = Ok
    THEN [s EXCEPT !.status = "returned", !.calls = @ + 1]
    ELSE IF ShouldRetry(o, s.attempt, s.max_retries)
    THEN [s EXCEPT !.calls = @ + 1,
                   !.slept = Append(@, s.wait_time),
                   !.wait_time = wait_time_Doubled(@),
                   !.attempt = @ + 1,
                   !.status = IF s.attempt + 1 < s.max_retries + 1
                              THEN "running" ELSE "none"]
    ELSE [s EXCEPT !.status = "raised", !.calls = @ + 1, !.error = o]

-----------------------------------------------------------------------------
(* The verdict tiers of auto_verify_report *)

clamp_NoUpperBound(n) == Max(MinScore, n)
clamp(n) == Max(MinScore, Min(MaxScore, n))

\* app.py line 1780
IsBlocked_Strict(score) == score < 0
IsBlocked(score) == score <= 0

\* app.py lines 1805-1811
IsSafetyText(t) == Hit(t, weapon_keywords) \/ Hit(t, kidnap_keywords)

Verdict(f, c, p, m) == [is_fake |-> f, confidence |-> c, penalty |-> p, method |-> m]

\* app.py lines 1816-1820 and 1974-1978
SafetyVerdict == Verdict(FALSE, 100, 0, "safety-heuristics")

\* app.py lines 1898-1902: the locals before the ML tier
DefaultVerdict == Verdict(FALSE, 50, 0, "heuristics")

\* app.py lines 1911-1968: the verdict made of a prediction of the classifier
MLVerdict_NoBands(ml_is_fake, confidence) ==
    IF ml_is_fake /\ confidence >= 60
    THEN Verdict(TRUE, confidence, 22, IF confidence < 70 THEN "heuristics" ELSE "ml-model")
    ELSE Verdict(FALSE, confidence, 0, "ml-model")
MLVerdict(ml_is_fake, confidence) ==
    IF ml_is_fake /\ confidence >= 60
    THEN LET penalty == IF confidence >= 95 THEN 22
                        ELSE IF confidence >= 85 THEN 18
                        ELSE IF confidence >= 70 THEN 12
                        ELSE 8
         IN  Verdict(TRUE, confidence, penalty,
                     IF confidence < 70 THEN "heuristics" ELSE "ml-model")
    ELSE LET is_fake == FALSE   \* line 1935, assigned before the tests below
             penalty == IF is_fake /\ confidence < 60 THEN 0
                        ELSE IF ~is_fake /\ confidence >= 95 THEN -5
                        ELSE IF ~is_fake /\ confidence >= 85 THEN -3
                        ELSE IF ~is_fake /\ confidence >= 70 THEN -1
                        ELSE 0
         IN  Verdict(is_fake, confidence, penalty,
                     IF is_fake /\ confidence < 70 THEN "heuristics" ELSE "ml-model")

\* app.py line 1981
NeedsTier2_Always(m, method) == TRUE
NeedsTier2(m, method) == ~m.model \/ method = "heuristics"

\* app.py lines 2058-2063
HeuristicVerdict(t, score) ==
    LET quick_flags == _quick_fake_check(t, score)
    IN  Verdict(quick_flags.is_suspicious, quick_flags.confidence,
                quick_flags.penalty, "heuristics")

\* What the text of a Gemini reply holds: no {...} at all, a {...} that is
\* not JSON, or a JSON object with these fields.
LLMPenalties == {-30, 0, 10, 40}
Replies ==
    [json : {"none", "bad"}, is_fake : {FALSE}, confidence : {0},
     credibility_penalty : {0}, can_upload : {FALSE}] \cup
    [json : {"object"}, is_fake : BOOLEAN, confidence : {80},
     credibility_penalty : LLMPenalties, can_upload : BOOLEAN]

\* app.py lines 2045-2049
GeminiVerdict(r) ==
    Verdict(r.is_fake, r.confidence, r.credibility_penalty, "gemini-api")

-----------------------------------------------------------------------------
(* Request workers *)

ExistingReport == "r1"
ReportIds == {"pre-verification", ExistingReport}
\* stands for the fresh flagged_<user>_<time>_<uuid> ids of lines 1846, 2083
GeneratedId == "flagged_gen"

ReqInit == [handler |-> "none", text |-> Txt(1, {}), rid |-> "pre-verification",
            score |-> 0]
LocInit == [cred |-> 0, had |-> FALSE, v |-> DefaultVerdict, can_upload |-> FALSE, ran |-> {},
            rs |-> RetryStart(HandlerMaxRetries, HandlerInitialWait),
            wrote |-> FALSE,
            ml_result |-> [is_fake |-> FALSE, confidence |-> 0]]
RespInit == [kind |-> "none", v |-> DefaultVerdict, old |-> 0, new |-> 0,
             can_upload |-> FALSE]

Response(kind, v, old, new, cu) ==
    [kind |-> kind, v |-> v, old |-> old, new |-> new, can_upload |-> cu]

\* the handlers' outer except clauses (lines 1716-1720, 2201-2205): status 500
ErrorResponse == Response("error", DefaultVerdict, 0, 0, FALSE)

Free(p) == pc[p] \in {"idle", "done"}

\* auto_verify_report, lines 1765-1777: the reporter's score as read, 50
\* without a record or without the field
user_credibility_score_ZeroDefault(user_doc) ==
    IF user_doc.has THEN user_doc.score ELSE MinScore
user_credibility_score(user_doc) ==
    IF user_doc.has THEN user_doc.score ELSE DefaultScore

\* auto_verify_report, lines 1748-1892: the request is read, the reporter's
\* score is read, and the blocked reporter, the safety keywords and the
\* short-report pre-screening are decided
AVReceive(p, t, rid) ==
    /\ Free(p) /\ nreq < MaxRequests
    /\ nreq' = nreq + 1
    /\ req' = [req EXCEPT ![p] = [ReqInit EXCEPT !.handler = "av", !.text = t, !.rid = rid]]
    /\ LET cred == user_credibility_score(ledger)
           quick_check == _quick_fake_check(t, cred)
           l == [LocInit EXCEPT !.cred = cred, !.had = ledger.has]
       IN  IF IsBlocked(cred)
           THEN /\ resp' = [resp EXCEPT ![p] =
                       Response("blocked", Verdict(TRUE, 100, 0, "blocked"), cred, cred, FALSE)]
                /\ loc' = [loc EXCEPT ![p] = l]
                /\ pc' = [pc EXCEPT ![p] = "done"]
           ELSE /\ resp' = [resp EXCEPT ![p] = RespInit]
                /\ IF IsSafetyText(t)
                   THEN /\ loc' = [loc EXCEPT ![p] = [l EXCEPT !.v = SafetyVerdict]]
                        /\ pc' = [pc EXCEPT ![p] = "tier2"]
                   ELSE IF t.words < ShortReportWords /\ quick_check.is_suspicious
                   THEN /\ loc' = [loc EXCEPT ![p] = [l EXCEPT
                               !.v = Verdict(TRUE, 85, quick_check.penalty,
                                             "pre-screening-heuristics"),
                               !.ran = {"prescreen"}]]
                        /\ pc' = [pc EXCEPT ![p] = "pre_ledger"]
                   ELSE /\ loc' = [loc EXCEPT ![p] = l]
                        /\ pc' = [pc EXCEPT ![p] = "ml"]
    /\ UNCHANGED <<ledger, reports, flagged, geminiKey, ml, rt, esc, ct, mlv, qf, ll>>

\* lines 1834-1843: the pre-screening writes the reporter's score
AVPreLedger(p, ok) ==
    /\ pc[p] = "pre_ledger"
    /\ LET new_cred == Max(0, loc[p].cred - loc[p].v.penalty)
       IN  /\ ledger' = IF ok THEN Stored(new_cred) ELSE ledger
           /\ loc' = [loc EXCEPT ![p].wrote = ok]
    /\ pc' = [pc EXCEPT ![p] = "pre_flag"]
    /\ UNCHANGED <<reports, flagged, geminiKey, ml, req, resp, nreq, rt, esc, ct, mlv, qf, ll>>

\* lines 1845-1892: the pre-screening files the report and answers
AVPreFlag(p, ok) ==
    /\ pc[p] = "pre_flag"
    /\ flagged' = IF ok THEN flagged \cup {GeneratedId} ELSE flagged
    /\ resp' = [resp EXCEPT ![p] =
           Response("ok", loc[p].v, loc[p].cred,
                    Max(0, loc[p].cred - loc[p].v.penalty), FALSE)]
    /\ pc' = [pc EXCEPT ![p] = "done"]
    /\ UNCHANGED <<ledger, reports, geminiKey, ml, req, loc, nreq, rt, esc, ct, mlv, qf, ll>>

\* lines 1896-1970: Tier 1, the ML model
AVTierML(p, lo, out) ==
    /\ pc[p] = "ml"
    /\ LET lz == lazy_load_ml_model(ml, lo)
           ml_result == predict_fake_with_ml_model(lz.ml, out)
       IN  /\ ml' = lz.ml
           /\ loc' = [loc EXCEPT ![p] =
                  IF lz.ret /\ lz.ml.model
                  THEN IF ml_result.raised
                       THEN [@ EXCEPT !.ran = @ \cup {"ml-failed"}]
                       ELSE [@ EXCEPT !.v = MLVerdict(ml_result.is_fake, ml_result.confidence),
                                      !.ml_result = [is_fake |-> ml_result.is_fake,
                                                     confidence |-> ml_result.confidence],
                                      !.ran = @ \cup {"ml"}]
                  ELSE [@ EXCEPT !.ran = @ \cup {"ml-unavailable"}]]
    /\ pc' = [pc EXCEPT ![p] = "tier2"]
    /\ UNCHANGED <<ledger, reports, flagged, geminiKey, req, resp, nreq, rt, esc, ct, mlv, qf, ll>>

\* lines 1980-1983 and 2055-2063: Tier 2 is entered or skipped; without an
\* API key Tier 3, the heuristics, decides
AVTier2(p) ==
    /\ pc[p] = "tier2"
    /\ IF NeedsTier2(ml, loc[p].v.method)
       THEN IF geminiKey
            THEN /\ loc' = [loc EXCEPT ![p].ran = @ \cup {"llm"},
                                       ![p].rs = RetryStart(HandlerMaxRetries, HandlerInitialWait)]
                 /\ pc' = [pc EXCEPT ![p] = "gemini"]
            ELSE /\ loc' = [loc EXCEPT ![p].ran = @ \cup {"heuristic"},
                                       ![p].v = HeuristicVerdict(req[p].text, loc[p].cred)]
                 /\ pc' = [pc EXCEPT ![p] = "store"]
       ELSE /\ loc' = loc
            /\ pc' = [pc EXCEPT ![p] = "store"]
    /\ UNCHANGED <<ledger, reports, flagged, geminiKey, ml, req, resp, nreq, rt, esc, ct, mlv, qf, ll>>

\* detect_fake_report, lines 1468-1492: the request is read and the
\* heuristic flags are computed; the locals get their defaults. The
\* officer_id of the request is the reporter whose score the ledger holds,
\* and the request names a report (without one nothing is stored).
DFScores == {10, 60}
DFReceive(p, t, score, rid) ==
    /\ Free(p) /\ nreq < MaxRequests
    /\ nreq' = nreq + 1
    /\ req' = [req EXCEPT ![p] = [handler |-> "df", text |-> t, rid |-> rid,
                                  score |-> score]]
    /\ loc' = [loc EXCEPT ![p] = [LocInit EXCEPT !.cred = score,
                                                 !.v = Verdict(FALSE, 0, 0, "default")]]
    /\ resp' = [resp EXCEPT ![p] = RespInit]
    /\ pc' = [pc EXCEPT ![p] = "df_ml"]
    /\ UNCHANGED <<ledger, reports, flagged, geminiKey, ml, rt, esc, ct, mlv, qf, ll>>

\* lines 1516-1517
CanUpload(is_fake, score) == ~is_fake /\ score >= UploadThreshold

\* lines 1507-1517: the ML result merged with the heuristic flags
DFMLVerdict(ml_result, quick_flags) ==
    Verdict(ml_result.is_fake,
            IF quick_flags.is_suspicious /\ quick_flags.confidence > ml_result.confidence
            THEN quick_flags.confidence ELSE ml_result.confidence,
            IF quick_flags.is_suspicious THEN quick_flags.penalty
            ELSE IF ml_result.is_fake THEN 20 ELSE 0,
            "ml-model")

\* lines 1494-1527: Tier 1
DFTierML(p, lo, out) ==
    /\ pc[p] = "df_ml"
    /\ LET lz == lazy_load_ml_model(ml, lo)
           ml_result == predict_fake_with_ml_model(lz.ml, out)
           quick_flags == _quick_fake_check(req[p].text, req[p].score)
           v == DFMLVerdict(ml_result, quick_flags)
       IN  /\ ml' = lz.ml
           /\ IF lz.ret /\ lz.ml.model
              THEN IF ~ml_result.raised
                   THEN /\ loc' = [loc EXCEPT ![p].v = v,
                                   ![p].can_upload = CanUpload(v.is_fake, req[p].score),
                                   ![p].ml_result = [is_fake |-> ml_result.is_fake,
                                                     confidence |-> ml_result.confidence],
                                   ![p].ran = @ \cup {"ml"}]
                        /\ pc' = [pc EXCEPT ![p] = "df_tier2"]
                        /\ resp' = resp
                   ELSE IF geminiKey
                   THEN /\ loc' = [loc EXCEPT ![p].ran = @ \cup {"ml-failed"}]
                        /\ pc' = [pc EXCEPT ![p] = "df_tier2"]
                        /\ resp' = resp
                   ELSE /\ loc' = [loc EXCEPT ![p].ran = @ \cup {"ml-failed"}]
                        /\ pc' = [pc EXCEPT ![p] = "done"]
                        /\ resp' = [resp EXCEPT ![p] = ErrorResponse]
              ELSE /\ loc' = [loc EXCEPT ![p].ran = @ \cup {"ml-unavailable"}]
                   /\ pc' = [pc EXCEPT ![p] = "df_tier2"]
                   /\ resp' = resp
    /\ UNCHANGED <<ledger, reports, flagged, geminiKey, req, nreq, rt, esc, ct, mlv, qf, ll>>

\* line 1530: 'is_fake' is a local since line 1480, so the second test
\* ('is_fake' not in locals()) is never true
DFNeedsTier2(m) == ~m.model \/ FALSE

\* lines 1530-1531 and 1645-1651
DFTier2(p) ==
    /\ pc[p] = "df_tier2"
    /\ IF DFNeedsTier2(ml)
       THEN IF geminiKey
            THEN /\ loc' = [loc EXCEPT ![p].ran = @ \cup {"llm"},
                                       ![p].rs = RetryStart(HandlerMaxRetries, HandlerInitialWait)]
                 /\ pc' = [pc EXCEPT ![p] = "gemini"]
            ELSE LET v == HeuristicVerdict(req[p].text, req[p].score)
                 IN  /\ loc' = [loc EXCEPT ![p].ran = @ \cup {"heuristic"},
                                           ![p].v = v,
                                           ![p].can_upload = CanUpload(v.is_fake, req[p].score)]
                     /\ pc' = [pc EXCEPT ![p] = "df_store"]
       ELSE /\ loc' = loc
            /\ pc' = [pc EXCEPT ![p] = "df_store"]
    /\ UNCHANGED <<ledger, reports, flagged, geminiKey, ml, req, resp, nreq, rt, esc, ct, mlv, qf, ll>>

\* lines 1629-1640: the reply's fields merged with the heuristic flags
DFGeminiVerdict(r, quick_flags) ==
    Verdict(r.is_fake,
            IF quick_flags.is_suspicious
            THEN Max(r.confidence, quick_flags.confidence) ELSE r.confidence,
            IF quick_flags.is_suspicious /\ quick_flags.penalty > r.credibility_penalty
            THEN quick_flags.penalty ELSE r.credibility_penalty,
            "gemini-api")

\* lines 1620-1644 and 2036-2054: one iteration of call_gemini_with_retry
\* inside a handler, and the parse of the reply once one is returned
Gemini(p, o, r) ==
    /\ pc[p] = "gemini"
    /\ loc[p].rs.status = "running"
    /\ LET s == RetryIter(loc[p].rs, o)
           parsed == s.status = "returned" /\ r.json = "object"
           quick_flags == _quick_fake_check(req[p].text, req[p].score)
           rs == IF s.status = "running" THEN s ELSE LocInit.rs
       IN  /\ loc' = [loc EXCEPT ![p] =
                  IF ~parsed THEN [@ EXCEPT !.rs = rs]
                  ELSE IF req[p].handler = "av"
                  THEN [@ EXCEPT !.rs = rs, !.v = GeminiVerdict(r)]
                  ELSE [@ EXCEPT !.rs = rs, !.v = DFGeminiVerdict(r, quick_flags),
                                 !.can_upload = r.can_upload]]
           /\ pc' = [pc EXCEPT ![p] =
                  IF s.status = "running" THEN "gemini"
                  ELSE IF ~parsed THEN "done"
                  ELSE IF req[p].handler = "av" THEN "store" ELSE "df_store"]
           /\ resp' = [resp EXCEPT ![p] =
                  IF s.status # "running" /\ ~parsed THEN ErrorResponse ELSE @]
    /\ UNCHANGED <<ledger, reports, flagged, geminiKey, ml, req, nreq, rt, esc, ct, mlv, qf, ll>>

\* lines 2075-2152: the verdict is stored. A fake report that exists in
\* reports is copied to flagged_reports; a report judged genuine gets its
\* verification fields. ok: the store call succeeds; a failure raises into
\* the except clause of line 2187, which skips the ledger update.
\* lines 2120-2141: where the move of a fake report goes on after the read
\* of the report and the write to flagged_reports; a failure of either
\* leaves the try block of line 2076
AfterFlaggedSet_FailureCaught(ok, found) == IF found THEN "delete" ELSE "ledger"
AfterFlaggedSet(ok, found) ==
    IF ~ok THEN "final" ELSE IF found THEN "delete" ELSE "ledger"

AVStore(p, ok) ==
    /\ pc[p] = "store"
    /\ LET rid == req[p].rid
       IN  IF loc[p].v.is_fake
           THEN IF rid = "pre-verification"
                THEN \* lines 2111-2118: a failure is caught at once
                     /\ flagged' = IF ok THEN flagged \cup {GeneratedId} ELSE flagged
                     /\ pc' = [pc EXCEPT ![p] = "ledger"]
                ELSE /\ flagged' = IF ok /\ rid \in reports THEN flagged \cup {rid}
                                   ELSE flagged
                     /\ pc' = [pc EXCEPT ![p] = AfterFlaggedSet(ok, rid \in reports)]
           ELSE /\ flagged' = flagged
                /\ pc' = [pc EXCEPT ![p] =
                       IF rid # "pre-verification" /\ ~ok THEN "final" ELSE "ledger"]
    /\ UNCHANGED <<ledger, reports, geminiKey, ml, req, loc, resp, nreq, rt, esc, ct, mlv, qf, ll>>

\* lines 2139-2141: the fake report is deleted from reports
AVDelete(p, ok) ==
    /\ pc[p] = "delete"
    /\ reports' = IF ok THEN reports \ {req[p].rid} ELSE reports
    /\ pc' = [pc EXCEPT ![p] = IF ok THEN "ledger" ELSE "final"]
    /\ UNCHANGED <<ledger, flagged, geminiKey, ml, req, loc, resp, nreq, rt, esc, ct, mlv, qf, ll>>

\* lines 2173-2178: the score to store, and whether a write is made
NewScore(cred, penalty) == clamp(cred - penalty)
WritesLedger_AnyDelta(cred, penalty) == penalty # 0
WritesLedger_Always(cred, penalty) == TRUE
WritesLedger(cred, penalty) ==
    penalty # 0 /\ ~(cred >= MaxScore /\ penalty < 0)

\* lines 2170-2186: the reporter's score is updated
AVLedger(p, ok) ==
    /\ pc[p] = "ledger"
    /\ LET w == WritesLedger(loc[p].cred, loc[p].v.penalty) /\ ok
       IN  /\ ledger' = IF w THEN Stored(NewScore(loc[p].cred, loc[p].v.penalty))
                        ELSE ledger
           /\ loc' = [loc EXCEPT ![p].wrote = w]
    /\ pc' = [pc EXCEPT ![p] = "final"]
    /\ UNCHANGED <<reports, flagged, geminiKey, ml, req, resp, nreq, rt, esc, ct, mlv, qf, ll>>

\* lines 2190-2199: the response
AVRespond(p) ==
    /\ pc[p] = "final"
    /\ resp' = [resp EXCEPT ![p] =
           Response("ok", loc[p].v, loc[p].cred,
                    clamp(loc[p].cred - loc[p].v.penalty), FALSE)]
    /\ pc' = [pc EXCEPT ![p] = "done"]
    /\ UNCHANGED <<ledger, reports, flagged, geminiKey, ml, req, loc, nreq, rt, esc, ct, mlv, qf, ll>>

\* detect_fake_report, lines 1653-1714: the response is built, and with a
\* report id the verification is stored and the officer's score updated
DFStore(p, ok) ==
    /\ pc[p] = "df_store"
    /\ LET v == loc[p].v
           new == clamp(req[p].score - v.penalty)
           w == req[p].rid # "" /\ v.penalty > 0 /\ ok
       IN  /\ resp' = [resp EXCEPT ![p] =
                  Response("ok", v, req[p].score, new, loc[p].can_upload)]
           /\ ledger' = IF w THEN Stored(new) ELSE ledger
           /\ loc' = [loc EXCEPT ![p].wrote = w]
    /\ pc' = [pc EXCEPT ![p] = "done"]
    /\ UNCHANGED <<reports, flagged, geminiKey, ml, req, nreq, rt, esc, ct, mlv, qf, ll>>

\* the steps of a worker that handles auto_verify_report, for requests with
\* a text of T and a report id of R, and predictions O of the classifier
AVWorkerOn(p, T, R, O) ==
    \/ \E t \in T, rid \in R : AVReceive(p, t, rid)
    \/ \E ok \in BOOLEAN : AVPreLedger(p, ok)
    \/ \E ok \in BOOLEAN : AVPreFlag(p, ok)
    \/ \E lo \in LoadOutcomes, out \in O : AVTierML(p, lo, out)
    \/ AVTier2(p)
    \/ \E ok \in BOOLEAN : AVStore(p, ok)
    \/ \E ok \in BOOLEAN : AVDelete(p, ok)
    \/ \E ok \in BOOLEAN : AVLedger(p, ok)
    \/ AVRespond(p)

\* the steps of a worker that handles detect_fake_report
DFWorker(p) ==
    \/ \E t \in Texts, score \in DFScores : DFReceive(p, t, score, ExistingReport)
    \/ \E lo \in LoadOutcomes, out \in MLOutcomes : DFTierML(p, lo, out)
    \/ DFTier2(p)
    \/ \E ok \in BOOLEAN : DFStore(p, ok)

\* the Gemini call of either handler, with replies Rs
GeminiCallOn(p, Rs) ==
    \E o \in GenerateOutcomes :
        IF o = Ok THEN \E r \in Rs : Gemini(p, o, r)
        ELSE Gemini(p, o, CHOOSE r \in Replies : r.json = "none")

\* every step a request worker can take
Worker(p) ==
    \/ AVWorkerOn(p, Texts, ReportIds, MLOutcomes)
    \/ GeminiCallOn(p, Replies)
    \/ DFWorker(p)

-----------------------------------------------------------------------------
(* call_gemini_with_retry called on its own *)

RtIdle == [s |-> [RetryStart(0, 1) EXCEPT !.status = "idle"], outs |-> <<>>]

\* lines 332-335: the wrapper is entered
RetryCall(max_retries, initial_wait) ==
    /\ rt.s.status = "idle"
    /\ rt' = [s |-> RetryStart(max_retries, initial_wait), outs |-> <<>>]
    /\ UNCHANGED <<ledger, reports, flagged, geminiKey, ml, pc, req, loc, resp, nreq, esc, ct, mlv, qf, ll>>

\* lines 335-358: one iteration; outs records what generate_content did
RetryAttempt(o) ==
    /\ rt.s.status = "running"
    /\ rt' = [s |-> RetryIter(rt.s, o), outs |-> Append(rt.outs, o)]
    /\ UNCHANGED <<ledger, reports, flagged, geminiKey, ml, pc, req, loc, resp, nreq, esc, ct, mlv, qf, ll>>

RetryNext ==
    \/ \E mr \in 0..MaxRetriesBound, iw \in 1..MaxInitialWait : RetryCall(mr, iw)
    \/ \E o \in GenerateOutcomes : RetryAttempt(o)

-----------------------------------------------------------------------------
(* escalation_model_service.py predict_escalation_risk: the override chain *)

violence_keywords == {"hostage", "kidnap", "attack"}
child_safety_keywords == {"child", "kidnap"}
generic_keywords == {"noise"}
life_threatening_keywords == {"hostage", "bomb"}
EscVocabulary == {"hostage", "bomb", "child", "kidnap", "noise", "attack"}

CategoricalFeatures == 8
EncodedFeatures == 7
GenericWords == 8

Probs(l, m, h) == [Low |-> l, Medium |-> m, High |-> h]

\* predictions of the base model: the risk is the arg max of the vector
BasePredictions ==
    { [risk |-> "Low", confidence |-> 70, probabilities |-> Probs(70, 20, 10)],
      [risk |-> "Medium", confidence |-> 50, probabilities |-> Probs(20, 50, 30)],
      [risk |-> "High", confidence |-> 60, probabilities |-> Probs(10, 30, 60)],
      [risk |-> "High", confidence |-> 99, probabilities |-> Probs(0, 1, 99)] }

\* descriptions: up to three words of the vocabulary in a text of 5 or 9 words
Descriptions ==
    { d \in [words : {5, 9}, toks : SUBSET EscVocabulary] : Cardinality(d.toks) <= 3 }

EscInputs == [base : BasePredictions, unknown : 0..EncodedFeatures, description : Descriptions]

\* line 381: no downgrade when either safety vocabulary is present
NeverOverride_LifeOnly(has_life_threatening, has_child_safety_concerns) == has_life_threatening
NeverOverride(has_life_threatening, has_child_safety_concerns) ==
    has_life_threatening \/ has_child_safety_concerns

\* lines 385 and 391: the two downgrade cases
OverrideCase1(many_unknown, is_generic_description, has_violence_keywords) ==
    many_unknown /\ is_generic_description /\ ~has_violence_keywords
OverrideCase2_WithViolence(has_generic_keywords, has_violence_keywords) == has_generic_keywords
OverrideCase2(has_generic_keywords, has_violence_keywords) ==
    has_generic_keywords /\ ~has_violence_keywords

\* lines 397-414: the downgrade target follows the generic noise vocabulary
Downgraded_AlwaysMedium(has_generic_keywords) ==
    [risk |-> "Medium", confidence |-> 55, probabilities |-> Probs(20, 55, 25)]
Downgraded(has_generic_keywords) ==
    IF has_generic_keywords
    THEN [risk |-> "Low", confidence |-> 60, probabilities |-> Probs(60, 35, 5)]
    ELSE [risk |-> "Medium", confidence |-> 55, probabilities |-> Probs(20, 55, 25)]

\* lines 343-345: each unknown category costs 0.15 of confidence, floor 0.30
adjusted_confidence_NoFloor(raw_confidence, unknown) == raw_confidence - unknown * 15
adjusted_confidence(raw_confidence, unknown) == Max(30, raw_confidence - unknown * 15)

\* lines 320-414
predict_escalation_risk(in) ==
    LET d == in.description
        is_generic_description == d.words < GenericWords
        has_violence_keywords == Hit(d, violence_keywords)
        has_child_safety_concerns == Hit(d, child_safety_keywords)
        has_generic_keywords == Hit(d, generic_keywords)
        has_life_threatening == Hit(d, life_threatening_keywords)
        \* unknown_ratio > 0.3 with unknown_ratio = unknown / 8.0
        many_unknown == in.unknown * 10 > 3 * CategoricalFeatures
        adjusted == [risk |-> in.base.risk,
                     confidence |-> adjusted_confidence(in.base.confidence, in.unknown),
                     probabilities |-> in.base.probabilities]
        child == IF has_child_safety_concerns /\ adjusted.risk # "High"
                 THEN [risk |-> "High", confidence |-> 85, probabilities |-> Probs(5, 10, 85)]
                 ELSE adjusted
        life == IF has_life_threatening /\ child.risk # "High"
                THEN [risk |-> "High", confidence |-> 95, probabilities |-> Probs(2, 3, 95)]
                ELSE child
        should_override ==
            IF NeverOverride(has_life_threatening, has_child_safety_concerns) THEN FALSE
            ELSE \/ OverrideCase1(many_unknown, is_generic_description, has_violence_keywords)
                    /\ life.risk = "High"
                 \/ OverrideCase2(has_generic_keywords, has_violence_keywords)
                    /\ life.risk = "High"
        final == IF ~should_override THEN life ELSE Downgraded(has_generic_keywords)
    IN  [predicted_risk |-> final.risk, confidence |-> final.confidence,
         probabilities |-> final.probabilities, was_overridden |-> should_override]

EscIdle == [done |-> FALSE,
            in |-> CHOOSE i \in EscInputs : TRUE,
            out |-> [predicted_risk |-> "Low", confidence |-> 0,
                     probabilities |-> Probs(0, 0, 0), was_overridden |-> FALSE]]

\* predict_escalation_risk is called on the incident
Escalate ==
    /\ ~esc.done
    /\ esc' = [esc EXCEPT !.done = TRUE, !.out = predict_escalation_risk(esc.in)]
    /\ UNCHANGED <<ledger, reports, flagged, geminiKey, ml, pc, req, loc, resp, nreq, rt, ct, mlv, qf, ll>>

-----------------------------------------------------------------------------
(* Keyword classification of the crime type: predict_crime_type (app.py     *)
(* 2774-2926) and auto_extract_and_classify (app.py 477-533). A description *)
(* is the set of vocabulary words it contains; predict_crime_type searches  *)
(* substrings, auto_extract_and_classify whole words, so each list below    *)
(* holds the words of CrimeVocabulary that the list of the code matches.    *)

MaxCrimeWords == 3

CrimeVocabulary ==
    {"scam", "kidnapped", "snatched", "disappeared", "missing child", "girl",
     "phone", "gun", "robbed", "raped", "harassment", "drugs", "burning",
     "graffiti", "burglary", "fight", "killed"}

\* predict_crime_type, lines 2775-2786
pct_kidnapping_keywords == {"kidnapped", "snatched", "disappeared", "missing child"}
pct_weapon_keywords == {"gun"}
pct_theft_keywords == {"phone", "snatched"}
pct_burglary_keywords == {"burglary"}
pct_assault_keywords == {"fight"}
pct_rape_keywords == {"raped"}
pct_sexual_harassment_keywords == {"harassment"}
pct_drug_keywords == {"drugs"}
pct_arson_keywords == {"burning"}
pct_fraud_keywords == {"scam"}
pct_vandalism_keywords == {"graffiti"}
\* line 2813: the robbery verbs of the weapon + robbery rule
pct_robbery_keywords == {"robbed", "snatched"}

\* auto_extract_and_classify, lines 499-507
aec_person_keywords == {"girl", "missing child"}
aec_kidnapping_keywords == {"kidnapped", "missing child"}
aec_missing_child == {"missing child"}
aec_weapon_keywords == {"gun"}
aec_robbery_keywords == {"robbed", "snatched"}
aec_theft_keywords == {"phone", "snatched"}
\* auto_extract_and_classify, lines 596-625: the lists of the fallback chain
aec_rape_keywords == {"raped"}
aec_murder_keywords == {"killed"}
aec_fallback_theft_keywords == {"phone"}
aec_fallback_person_keywords == {"girl"}
aec_arson_keywords == {"burning"}
aec_burglary_keywords == {"burglary"}
aec_assault_keywords == {"fight"}
aec_vandalism_keywords == {"graffiti"}

\* the label of the crime-type model (other labels are not distinguished)
CrimeModelLabels == {"Public Disturbance", "Theft"}

CrimeTexts == {[toks |-> T] : T \in {T \in SUBSET CrimeVocabulary : Cardinality(T) <= MaxCrimeWords}}
\* model_available: the crime-type model is loaded and its inference succeeds
CrimeInputs == [text : CrimeTexts, ml_label : CrimeModelLabels, model_available : BOOLEAN]

\* predict_crime_type: result['crime_type'] and result['override_label']
Label(crime_type, override_label) == [crime_type |-> crime_type, override_label |-> override_label]
\* auto_extract_and_classify: auto_crime_type and auto_crime_confidence
Extracted(auto_crime_type, auto_crime_confidence) ==
    [auto_crime_type |-> auto_crime_type, auto_crime_confidence |-> auto_crime_confidence]
\* the confidence of the crime-type model (its value is not distinguished)
CrimeModelConfidence == 50

\* lines 2789-2926: the override chain; without a match the model's label stays
predict_crime_type_KidnappingFirst(t, ml_label) ==
    IF Hit(t, pct_kidnapping_keywords) THEN Label("Murder", "Kidnapping")
    ELSE IF Hit(t, pct_fraud_keywords) THEN Label("Fraud", "none")
    ELSE Label(ml_label, "none")
predict_crime_type(t, ml_label) ==
    IF Hit(t, pct_fraud_keywords) THEN Label("Fraud", "none")
    ELSE IF Hit(t, pct_kidnapping_keywords) THEN Label("Murder", "Kidnapping")
    ELSE IF Hit(t, pct_rape_keywords) THEN Label("Rape", "none")
    ELSE IF Hit(t, pct_weapon_keywords) /\ Hit(t, pct_robbery_keywords)
    THEN Label("Armed Robbery", "none")
    ELSE IF Hit(t, pct_weapon_keywords) /\ Hit(t, pct_theft_keywords)
    THEN Label("Armed Robbery", "none")
    ELSE IF Hit(t, pct_weapon_keywords) THEN Label("Assault", "none")
    ELSE IF Hit(t, pct_sexual_harassment_keywords) /\ ~Hit(t, pct_rape_keywords)
    THEN Label("Sexual Harassment", "none")
    ELSE IF Hit(t, pct_drug_keywords) THEN Label("Drug Offense", "none")
    ELSE IF Hit(t, pct_arson_keywords) THEN Label("Arson", "none")
    ELSE IF Hit(t, pct_vandalism_keywords) THEN Label("Vandalism", "none")
    ELSE IF Hit(t, pct_burglary_keywords) THEN Label("Burglary", "none")
    ELSE IF Hit(t, pct_assault_keywords) THEN Label("Assault", "none")
    ELSE IF Hit(t, pct_theft_keywords) /\ ~Hit(t, pct_weapon_keywords)
    THEN Label("Theft", "none")
    ELSE Label(ml_label, "none")

\* lines 596-629: the keyword chain used when the model gave no label
FallbackHeuristics(t) ==
    IF Hit(t, aec_rape_keywords) THEN Extracted("Rape", 96)
    ELSE IF Hit(t, aec_murder_keywords) THEN Extracted("Murder", 95)
    ELSE IF Hit(t, aec_fallback_theft_keywords)
    THEN IF ~Hit(t, aec_fallback_person_keywords) THEN Extracted("Theft", 88)
         ELSE Extracted("Assault", 85)
    ELSE IF Hit(t, aec_arson_keywords) THEN Extracted("Arson", 82)
    ELSE IF Hit(t, aec_burglary_keywords) THEN Extracted("Burglary", 86)
    ELSE IF Hit(t, aec_assault_keywords) THEN Extracted("Assault", 88)
    ELSE IF Hit(t, aec_vandalism_keywords) THEN Extracted("Vandalism", 80)
    ELSE Extracted("None", 30)

\* lines 477-666: the keyword rules that run before the model, the model,
\* and the fallback chain
auto_extract_and_classify(t, ml_label, model_available) ==
    LET has_person == Hit(t, aec_person_keywords)
        has_kidnapping == (Hit(t, aec_kidnapping_keywords) /\ has_person)
                          \/ Hit(t, aec_missing_child)
        has_weapon == Hit(t, aec_weapon_keywords)
        has_robbery == Hit(t, aec_robbery_keywords)
        has_theft == Hit(t, aec_theft_keywords)
    IN  IF has_kidnapping \/ has_weapon
        THEN IF has_kidnapping THEN Extracted("Murder", 97)
             ELSE IF has_weapon /\ has_robbery THEN Extracted("Armed Robbery", 95)
             ELSE Extracted("Armed Robbery", 93)
        ELSE IF has_theft /\ ~has_weapon THEN Extracted("Theft", 89)
        ELSE IF model_available THEN Extracted(ml_label, CrimeModelConfidence)
        ELSE FallbackHeuristics(t)

CtIdle == [in |-> [text |-> [toks |-> {}], ml_label |-> "Theft", model_available |-> TRUE],
           pct |-> Label("none", "none"), aec |-> Extracted("none", 0),
           pct_done |-> FALSE, aec_done |-> FALSE]

\* POST /predict-crime-type with the description
PredictCrimeType ==
    /\ ~ct.pct_done
    /\ ct' = [ct EXCEPT !.pct_done = TRUE,
                        !.pct = predict_crime_type(ct.in.text, ct.in.ml_label)]
    /\ UNCHANGED <<ledger, reports, flagged, geminiKey, ml, pc, req, loc, resp, nreq, rt, esc, mlv, qf, ll>>

\* auto_extract_and_classify is called on the description
AutoExtract ==
    /\ ~ct.aec_done
    /\ ct' = [ct EXCEPT !.aec_done = TRUE,
                        !.aec = auto_extract_and_classify(ct.in.text, ct.in.ml_label,
                                                          ct.in.model_available)]
    /\ UNCHANGED <<ledger, reports, flagged, geminiKey, ml, pc, req, loc, resp, nreq, rt, esc, mlv, qf, ll>>

CrimeNext == PredictCrimeType \/ AutoExtract

-----------------------------------------------------------------------------
(* The ML tier's mapping of a prediction to a verdict, on its own *)

MaxConfidence == 100

MLPredictions == [is_fake : BOOLEAN, confidence : 0..MaxConfidence]

MlvIdle == [in |-> [is_fake |-> FALSE, confidence |-> 0], out |-> DefaultVerdict, done |-> FALSE]

\* app.py lines 1909-1968 applied to the prediction
MapPrediction ==
    /\ ~mlv.done
    /\ mlv' = [mlv EXCEPT !.done = TRUE,
                          !.out = MLVerdict(mlv.in.is_fake, mlv.in.confidence)]
    /\ UNCHANGED <<ledger, reports, flagged, geminiKey, ml, pc, req, loc, resp, nreq, rt, esc, ct, qf, ll>>

-----------------------------------------------------------------------------
(* The heuristic scorer alone: _quick_fake_check (app.py 1277-1441) applied *)
(* to two texts of the same length for the same reporter score.             *)

\* texts of 4, 7 or 12 words holding up to three entries of the vocabulary,
\* with or without a low vowel ratio
ScorerTexts ==
    { [Txt(n, T) EXCEPT !.lowVowel = g] :
        n \in {4, 7, 12},
        T \in {T \in SUBSET {"lol", "just testing", "1000", "million", "gun", "order"} :
                    Cardinality(T) <= 3},
        g \in BOOLEAN }

ScorerInputs ==
    { in \in [a : ScorerTexts, b : ScorerTexts, score : {10, 50}] :
        in.a.words = in.b.words }

QfIdle ==
    LET none == [is_suspicious |-> FALSE, confidence |-> 0, penalty |-> 0]
    IN  [done |-> FALSE, in |-> CHOOSE i \in ScorerInputs : TRUE,
         outa |-> none, outb |-> none]

\* _quick_fake_check is called on each of the two texts
QuickCheck ==
    /\ ~qf.done
    /\ qf' = [qf EXCEPT !.done = TRUE,
                        !.outa = _quick_fake_check(qf.in.a, qf.in.score),
                        !.outb = _quick_fake_check(qf.in.b, qf.in.score)]
    /\ UNCHANGED <<ledger, reports, flagged, geminiKey, ml, pc, req, loc, resp, nreq, rt, esc, ct, mlv, ll>>

-----------------------------------------------------------------------------
(* lazy_load_ml_model (app.py 105-237) step by step, called by the request  *)
(* threads of the server: the test of the flag, the assignment of the flag, *)
(* the load of the model and the load of the embedder are separate steps.   *)

MaxLoadCalls == 3

LlIdle ==
    [g |-> MLInit,
     pc |-> [c \in Procs |-> "idle"],
     late |-> [c \in Procs |-> FALSE],      \* the call began after an attempt had finished
     loaded |-> [c \in Procs |-> FALSE],    \* the call loaded the model
     ret |-> [c \in Procs |-> "none"],
     loads |-> 0,                           \* completed joblib.load of the model
     first |-> "none",                      \* what the first finished attempt returned
     ncalls |-> 0]

\* the call returns available; a call that went through the load is an attempt
LLReturn(s, c, available) ==
    [s EXCEPT !.pc[c] = "done",
              !.ret[c] = IF available THEN "true" ELSE "false",
              !.first = IF @ = "none" /\ s.pc[c] # "idle" /\ s.pc[c] # "done"
                        THEN (IF available THEN "true" ELSE "false") ELSE @]

\* lines 111-114: the flag is tested; with it set the answer is
\* ML_FAKE_MODEL is not None
LLCheck(c) ==
    /\ ll.pc[c] \in {"idle", "done"} /\ ll.ncalls < MaxLoadCalls
    /\ LET s == [ll EXCEPT !.ncalls = @ + 1, !.late[c] = (ll.first # "none"),
                           !.loaded[c] = FALSE, !.ret[c] = "none"]
       IN  ll' = IF ll.g.attempted THEN LLReturn(s, c, ll.g.model)
                 ELSE [s EXCEPT !.pc[c] = "set"]
    /\ UNCHANGED <<ledger, reports, flagged, geminiKey, ml, pc, req, loc, resp, nreq, rt, esc, ct, mlv, qf>>

\* line 116: ML_LOADING_ATTEMPTED = True
LLSet(c) ==
    /\ ll.pc[c] = "set"
    /\ ll' = [ll EXCEPT !.g.attempted = TRUE, !.pc[c] = "model"]
    /\ UNCHANGED <<ledger, reports, flagged, geminiKey, ml, pc, req, loc, resp, nreq, rt, esc, ct, mlv, qf>>

\* lines 120-222: the imports, the test of the files and joblib.load of the
\* model; a failure returns False with ML_FAKE_MODEL unassigned
LLLoadModel(c, ok) ==
    /\ ll.pc[c] = "model"
    /\ ll' = IF ok
              THEN [ll EXCEPT !.loads = @ + 1, !.loaded[c] = TRUE,
                              !.g.model = TRUE, !.pc[c] = "embedder"]
              ELSE LLReturn(ll, c, FALSE)
    /\ UNCHANGED <<ledger, reports, flagged, geminiKey, ml, pc, req, loc, resp, nreq, rt, esc, ct, mlv, qf>>

\* lines 223-237: the label encoder, the embedder and the sentiment
\* analyzer; a failure returns False with ML_FAKE_MODEL assigned
LLLoadEmbedder(c, ok) ==
    /\ ll.pc[c] = "embedder"
    /\ ll' = IF ok THEN LLReturn([ll EXCEPT !.g.embedder = TRUE], c, TRUE)
              ELSE LLReturn(ll, c, FALSE)
    /\ UNCHANGED <<ledger, reports, flagged, geminiKey, ml, pc, req, loc, resp, nreq, rt, esc, ct, mlv, qf>>

LoadNext ==
    \E c \in Procs :
        \/ LLCheck(c)
        \/ LLSet(c)
        \/ \E ok \in BOOLEAN : LLLoadModel(c, ok)
        \/ \E ok \in BOOLEAN : LLLoadEmbedder(c, ok)

-----------------------------------------------------------------------------
(* Specifications *)

InitScores == {0, 10, 50, 100}

InitWorkers ==
    /\ ledger \in {NoScore} \cup {Stored(n) : n \in InitScores}
    /\ reports = {ExistingReport}
    /\ flagged = {}
    /\ geminiKey \in BOOLEAN
    /\ ml = MLInit
    /\ pc = [p \in Procs |-> "idle"]
    /\ req = [p \in Procs |-> ReqInit]
    /\ loc = [p \in Procs |-> LocInit]
    /\ resp = [p \in Procs |-> RespInit]
    /\ nreq = 0

Init == InitWorkers /\ rt = RtIdle /\ esc = EscIdle /\ ct = CtIdle /\ mlv = MlvIdle /\ qf = QfIdle /\ ll = LlIdle

\* one worker: requests are handled one after the other
Next == Worker(1)
Spec == Init /\ [][Next]_vars

\* several workers handle auto_verify_report requests at the same time
ConcTexts == {Txt(6, {"order"}), Txt(12, {"order"})}
ConcMLOutcomes == {o \in MLOutcomes : o.raised \/ o.confidence = 97}
ConcReplies == {r \in Replies : r.json = "none" \/ r.credibility_penalty = 10}
InitConc == Init /\ ledger \in {Stored(10), Stored(50)}
NextConc ==
    \E p \in Procs :
        \/ AVWorkerOn(p, ConcTexts, ReportIds, ConcMLOutcomes)
        \/ GeminiCallOn(p, ConcReplies)
SpecConc == InitConc /\ [][NextConc]_vars

\* the retry wrapper alone
InitRetry ==
    /\ ledger = NoScore /\ reports = {} /\ flagged = {} /\ geminiKey = TRUE
    /\ ml = MLInit
    /\ pc = [p \in Procs |-> "idle"]
    /\ req = [p \in Procs |-> ReqInit]
    /\ loc = [p \in Procs |-> LocInit]
    /\ resp = [p \in Procs |-> RespInit]
    /\ nreq = 0
    /\ rt = RtIdle /\ esc = EscIdle /\ ct = CtIdle /\ mlv = MlvIdle /\ qf = QfIdle /\ ll = LlIdle
SpecRetry == InitRetry /\ [][RetryNext]_vars
SpecRetryFair == SpecRetry /\ WF_vars(RetryNext)

\* the escalation override chain alone
InitEsc ==
    /\ ledger = NoScore /\ reports = {} /\ flagged = {} /\ geminiKey = TRUE
    /\ ml = MLInit
    /\ pc = [p \in Procs |-> "idle"]
    /\ req = [p \in Procs |-> ReqInit]
    /\ loc = [p \in Procs |-> LocInit]
    /\ resp = [p \in Procs |-> RespInit]
    /\ nreq = 0
    /\ rt = RtIdle
    /\ esc \in {[EscIdle EXCEPT !.in = i] : i \in EscInputs}
    /\ ct = CtIdle /\ mlv = MlvIdle /\ qf = QfIdle /\ ll = LlIdle
SpecEsc == InitEsc /\ [][Escalate]_vars

InitQuiet ==
    /\ ledger = NoScore /\ reports = {} /\ flagged = {} /\ geminiKey = TRUE
    /\ ml = MLInit
    /\ pc = [p \in Procs |-> "idle"]
    /\ req = [p \in Procs |-> ReqInit]
    /\ loc = [p \in Procs |-> LocInit]
    /\ resp = [p \in Procs |-> RespInit]
    /\ nreq = 0
    /\ rt = RtIdle /\ esc = EscIdle

\* the keyword classification of the crime type alone
InitCrime == InitQuiet /\ mlv = MlvIdle /\ qf = QfIdle /\ ll = LlIdle /\ ct \in {[CtIdle EXCEPT !.in = i] : i \in CrimeInputs}
SpecCrime == InitCrime /\ [][CrimeNext]_vars

\* the ML tier's band table alone
InitBands == InitQuiet /\ ct = CtIdle /\ qf = QfIdle /\ ll = LlIdle /\ mlv \in {[MlvIdle EXCEPT !.in = i] : i \in MLPredictions}
SpecBands == InitBands /\ [][MapPrediction]_vars

\* lazy_load_ml_model alone, called by two threads
InitLoad == InitQuiet /\ ct = CtIdle /\ mlv = MlvIdle /\ qf = QfIdle /\ ll = LlIdle
SpecLoad == InitLoad /\ [][LoadNext]_vars

\* the heuristic scorer alone
InitScorer ==
    InitQuiet /\ ct = CtIdle /\ mlv = MlvIdle /\ ll = LlIdle
    /\ qf \in {[QfIdle EXCEPT !.in = i] : i \in ScorerInputs}
SpecScorer == InitScorer /\ [][QuickCheck]_vars

-----------------------------------------------------------------------------
(* Properties *)

Done(p, handler) == pc[p] = "done" /\ req[p].handler = handler

\* C1: in auto_verify_report a report with weapon or kidnapping vocabulary
\* from a reporter who is not blocked gets the safety verdict (not fake,
\* confidence 1.0, safety tier), and no ML, LLM or heuristic tier runs.
C1_SafetyVerdictStands ==
    \A p \in Procs :
        (Done(p, "av") /\ IsSafetyText(req[p].text) /\ resp[p].kind # "blocked")
        => /\ resp[p].kind = "ok"
           /\ ~resp[p].v.is_fake
           /\ resp[p].v.confidence = 100
           /\ resp[p].v.method = "safety-heuristics"
           /\ loc[p].ran = {}

\* C2: two auto_verify_report requests for the same reporter that both wrote
\* a non-zero delta leave the score that applying the two deltas one after
\* the other gives, in one of the two orders.
C2_NoLostUpdate ==
    \A p, q \in Procs :
        (/\ p # q /\ Done(p, "av") /\ Done(q, "av")
         /\ loc[p].wrote /\ loc[q].wrote
         /\ loc[p].v.penalty # 0 /\ loc[q].v.penalty # 0)
        => \E x, y \in {p, q} :
              /\ x # y
              /\ ledger = Stored(clamp(clamp(loc[x].cred - loc[x].v.penalty)
                                       - loc[y].v.penalty))

C3Clamp(n) == IF n < 0 THEN 0 ELSE IF n > 100 THEN 100 ELSE n
C3Answered(p) == Done(p, "av") /\ resp[p].kind = "ok" /\ loc[p].had

\* C3 as stated: after a verification of a reporter whose score was stored,
\* the stored score and the new_credibility_score returned are integers in
\* 0..100, both equal to clamp(currentScore - delta, 0, 100).
C3_StoredAndReturnedClamped ==
    \A p \in Procs :
        C3Answered(p)
        => /\ resp[p].new \in 0..100
           /\ resp[p].new = C3Clamp(resp[p].old - resp[p].v.penalty)
           /\ ledger = Stored(resp[p].new)

\* C3 as amended: the stored score is always an integer in 0..100; the
\* new_credibility_score returned is clamp(currentScore - delta, 0, 100); the
\* stored score equals it when the request's ledger write was made, and keeps
\* the value that was read when a store call failed or no write was due.
C3_ClampedWhenWritten ==
    /\ ledger.has => ledger.score \in 0..100
    /\ \A p \in Procs :
          C3Answered(p)
          => /\ resp[p].new \in 0..100
             /\ resp[p].new = C3Clamp(resp[p].old - resp[p].v.penalty)
             /\ loc[p].wrote => ledger = Stored(resp[p].new)
             /\ ~loc[p].wrote => ledger = Stored(resp[p].old)

\* a penalty larger than the score that was read was written: the score is 0
C3_Witness ==
    \E p \in Procs :
        /\ C3Answered(p) /\ loc[p].wrote
        /\ resp[p].old - resp[p].v.penalty < 0 /\ ledger = Stored(0)

\* C4: a reporter whose stored score is <= 0 is rejected by
\* auto_verify_report before any tier runs, whatever the text; the rejection
\* writes nothing, and no step of auto_verify_report changes such a score.
C4_BlockedReporterRejected ==
    [][ \A p \in Procs :
          (ledger.has /\ ledger.score <= 0 /\ req'[p].handler = "av")
          => /\ ledger' = ledger
             /\ nreq' # nreq
                => /\ resp'[p].kind = "blocked"
                   /\ pc'[p] = "done"
                   /\ loc'[p].ran = {}
                   /\ reports' = reports /\ flagged' = flagged ]_vars

\* the second request, a weapon report, finds the score at 0 and is rejected
C4_Witness ==
    \E p \in Procs :
        /\ Done(p, "av") /\ resp[p].kind = "blocked" /\ nreq = 2
        /\ IsSafetyText(req[p].text) /\ ledger = Stored(0)

\* C5: a request that reached the LLM tier ends with a verdict (the LLM's, or
\* the heuristic scorer's when the LLM call or the parse of its reply
\* failed), never with an error.
C5_LLMFailureFallsBack ==
    \A p \in Procs :
        (pc[p] = "done" /\ "llm" \in loc[p].ran)
        => /\ resp[p].kind = "ok"
           /\ resp[p].v.method \in {"gemini-api", "heuristics"}

\* C6: when the ML tier was reached and gave no prediction (model not
\* loaded, or the prediction raised), both handlers go on to the LLM tier if
\* the LLM is configured and to the heuristic tier otherwise, whose verdict
\* is returned.
C6_MLFailureFallsThrough ==
    \A p \in Procs :
        (pc[p] = "done" /\ (loc[p].ran \cap {"ml-failed", "ml-unavailable"}) # {})
        => IF geminiKey
           THEN "llm" \in loc[p].ran
           ELSE /\ "heuristic" \in loc[p].ran
                /\ resp[p].kind = "ok"
                /\ resp[p].v.method = "heuristics"

\* C7: every verdict of detect_fake_report has
\* can_upload = (not is_fake) and (credibility >= 20).
C7_CanUploadRule ==
    \A p \in Procs :
        (Done(p, "df") /\ resp[p].kind = "ok")
        => (resp[p].can_upload <=> (~resp[p].v.is_fake /\ req[p].score >= 20))

RetryEnded == rt.s.status \in {"returned", "raised", "none"}
RateLimited(o) == o.kind = "rate_limit"

\* C8: the retry wrapper invokes the model again only after a rate-limit
\* failure; any other failure is raised to the caller after that single
\* invocation, with no wait and no further attempt.
C8_RetryOnlyOnRateLimit ==
    /\ rt.s.calls = Len(rt.outs)
    /\ \A i \in 1..Len(rt.outs) :
          /\ i < Len(rt.outs) => RateLimited(rt.outs[i])
          /\ rt.outs[i].kind = "other"
             => /\ i = Len(rt.outs)
                /\ rt.s.status = "raised"
                /\ rt.s.error = rt.outs[i]
                /\ Len(rt.s.slept) = i - 1

\* a rate-limit failure was retried, and the other failure that came next was raised
C8_Witness ==
    /\ Len(rt.outs) = 2
    /\ RateLimited(rt.outs[1]) /\ rt.outs[2].kind = "other"
    /\ rt.s.status = "raised" /\ Len(rt.s.slept) = 1

C9Safe ==
    /\ rt.s.status # "none"
    /\ rt.s.calls <= rt.s.max_retries + 1
    /\ rt.s.status = "returned" => rt.outs[Len(rt.outs)] = Ok
    /\ (RetryEnded /\ \A i \in 1..Len(rt.outs) : RateLimited(rt.outs[i]))
       => /\ rt.s.status = "raised"
          /\ rt.s.calls = rt.s.max_retries + 1
          /\ RateLimited(rt.s.error)

\* C9: when every invocation fails for rate limiting, the wrapper makes
\* exactly max_retries + 1 invocations and then raises; every call of the
\* wrapper ends, and it never returns normally without a result.
C9_BoundedRetries == []C9Safe /\ (rt.s.status = "running" ~> RetryEnded)

\* four invocations, all rate limited, with max_retries = 3
C9_Witness ==
    /\ rt.s.max_retries = MaxRetriesBound /\ rt.s.status = "raised"
    /\ Len(rt.outs) = MaxRetriesBound + 1
    /\ \A i \in 1..Len(rt.outs) : RateLimited(rt.outs[i])

\* C10: a description with life-threatening vocabulary gets risk High with
\* confidence 0.95 and probabilities Low 0.02, Medium 0.03, High 0.95,
\* whatever the base prediction and whatever other vocabulary it has.
C10_LifeThreateningIsHigh95 ==
    (esc.done /\ Hit(esc.in.description, life_threatening_keywords))
    => /\ esc.out.predicted_risk = "High"
       /\ esc.out.confidence = 95
       /\ esc.out.probabilities = Probs(2, 3, 95)

EscSafetyVocabulary(d) ==
    Hit(d, life_threatening_keywords) \/ Hit(d, child_safety_keywords)
EscManyUnknown == esc.in.unknown * 10 > 3 * CategoricalFeatures
EscShort == esc.in.description.words < GenericWords

\* C11: a description with life-threatening or child-safety vocabulary is
\* never downgraded: the risk returned is High for every base prediction,
\* also with many unknown categories, a short description and noise
\* vocabulary.
C11_SafetyVocabularyNeverDowngraded ==
    (esc.done /\ EscSafetyVocabulary(esc.in.description))
    => /\ esc.out.predicted_risk = "High"
       /\ ~esc.out.was_overridden

\* child vocabulary in a short noise complaint with many unknown categories
\* and a High base prediction: without the guard it would be downgraded
C11_Witness ==
    /\ esc.done /\ esc.in.base.risk = "High"
    /\ Hit(esc.in.description, child_safety_keywords)
    /\ ~Hit(esc.in.description, life_threatening_keywords)
    /\ ~Hit(esc.in.description, violence_keywords)
    /\ Hit(esc.in.description, generic_keywords)
    /\ EscManyUnknown /\ EscShort
    /\ esc.out.predicted_risk = "High"

C12Person(t) == Hit(t, aec_person_keywords)

\* C12: in predict_crime_type and in auto_extract_and_classify kidnapping
\* vocabulary escalates the category to Murder only when the text also has a
\* person noun or a missing-child phrase; "snatched my phone" yields Theft or
\* the model's label.
C12_KidnappingNeedsPerson ==
    /\ (ct.pct_done /\ ct.pct.override_label = "Kidnapping") => C12Person(ct.in.text)
    /\ (ct.aec_done /\ ct.aec = Extracted("Murder", 97)) => C12Person(ct.in.text)
    /\ (ct.pct_done /\ ct.in.text.toks = {"snatched", "phone"})
       => ct.pct.crime_type \in {"Theft", ct.in.ml_label}
    /\ (ct.aec_done /\ ct.in.text.toks = {"snatched", "phone"})
       => ct.aec.auto_crime_type \in {"Theft", "None", ct.in.ml_label}

C13Rules ==
    << "Fraud", "Murder", "Rape", "Armed Robbery", "Armed Robbery", "Assault",
       "Sexual Harassment", "Drug Offense", "Arson", "Vandalism", "Burglary",
       "Assault", "Theft" >>
C13Matches(i, t) ==
    LET weapon == Hit(t, pct_weapon_keywords)
    IN  CASE i = 1 -> Hit(t, pct_fraud_keywords)
          [] i = 2 -> Hit(t, pct_kidnapping_keywords)
          [] i = 3 -> Hit(t, pct_rape_keywords)
          [] i = 4 -> weapon /\ Hit(t, pct_robbery_keywords)
          [] i = 5 -> weapon /\ Hit(t, pct_theft_keywords)
          [] i = 6 -> weapon
          [] i = 7 -> Hit(t, pct_sexual_harassment_keywords)
          [] i = 8 -> Hit(t, pct_drug_keywords)
          [] i = 9 -> Hit(t, pct_arson_keywords)
          [] i = 10 -> Hit(t, pct_vandalism_keywords)
          [] i = 11 -> Hit(t, pct_burglary_keywords)
          [] i = 12 -> Hit(t, pct_assault_keywords)
          [] i = 13 -> Hit(t, pct_theft_keywords) /\ ~weapon

\* C13: predict_crime_type returns the category of the first rule, in the
\* order fraud, kidnapping, sexual violence, weapon + robbery verb, weapon +
\* theft noun, weapon, harassment, drug, arson, vandalism, burglary, assault,
\* theft without weapon, whose predicate holds (the model's label if none
\* holds): fraud with kidnapping gives Fraud, rape with harassment gives Rape.
C13_FirstRuleWins ==
    ct.pct_done
    => LET t == ct.in.text
           matching == {i \in 1..Len(C13Rules) : C13Matches(i, t)}
       IN  /\ matching = {} => ct.pct.crime_type = ct.in.ml_label
           /\ matching # {}
              => \E i \in matching :
                    /\ \A j \in matching : i <= j
                    /\ ct.pct.crime_type = C13Rules[i]
           /\ (Hit(t, pct_fraud_keywords) /\ Hit(t, pct_kidnapping_keywords))
              => ct.pct.crime_type = "Fraud"
           /\ (~Hit(t, pct_fraud_keywords) /\ ~Hit(t, pct_kidnapping_keywords)
               /\ Hit(t, pct_rape_keywords) /\ Hit(t, pct_sexual_harassment_keywords))
              => ct.pct.crime_type = "Rape"

\* a text with fraud and kidnapping vocabulary was classified as Fraud
C13_Witness ==
    /\ ct.pct_done /\ ct.in.text.toks = {"scam", "disappeared"}
    /\ ct.pct.crime_type = "Fraud"

C14Delta(is_fake, c) ==
    IF is_fake
    THEN IF c >= 95 THEN 22 ELSE IF c >= 85 THEN 18 ELSE IF c >= 70 THEN 12
         ELSE IF c >= 60 THEN 8 ELSE 0
    ELSE IF c >= 95 THEN -5 ELSE IF c >= 85 THEN -3 ELSE IF c >= 70 THEN -1 ELSE 0

\* C14: the ML tier of auto_verify_report maps (label, confidence) to
\* (isFake, delta) as the band table: fake gives 22, 18, 12, 8 from 0.95,
\* 0.85, 0.70, 0.60 and not fake with 0 below 0.60; genuine gives not fake
\* with -5, -3, -1 from 0.95, 0.85, 0.70 and 0 below.
C14_BandTable ==
    mlv.done
    => /\ mlv.out.is_fake = (mlv.in.is_fake /\ mlv.in.confidence >= 60)
       /\ mlv.out.penalty = C14Delta(mlv.in.is_fake, mlv.in.confidence)

\* label fake at 0.59: not fake, delta 0
C14_Witness ==
    /\ mlv.done /\ mlv.in.is_fake /\ mlv.in.confidence = 59
    /\ ~mlv.out.is_fake /\ mlv.out.penalty = 0

MLPredicted(p) == Done(p, "av") /\ "ml" \in loc[p].ran

\* C15: when the classifier says fake with a confidence below 0.60 and the
\* LLM is configured, auto_verify_report goes on to the LLM tier.
C15_LowConfidenceFakeGoesToLLM ==
    \A p \in Procs :
        (/\ MLPredicted(p) /\ geminiKey
         /\ loc[p].ml_result.is_fake /\ loc[p].ml_result.confidence < 60)
        => "llm" \in loc[p].ran

C17_MergeNeverLowers ==
    /\ \A p \in Procs :
          (Done(p, "df") /\ resp[p].kind = "ok" /\ "ml" \in loc[p].ran)
          => /\ resp[p].v.penalty >= (IF loc[p].ml_result.is_fake THEN 20 ELSE 0)
             /\ resp[p].v.confidence >= loc[p].ml_result.confidence
    /\ \A reply \in Replies, t \in Texts, score \in DFScores :
          reply.json = "object"
          => LET v == DFGeminiVerdict(reply, _quick_fake_check(t, score))
             IN  /\ v.penalty >= reply.credibility_penalty
                 /\ v.confidence >= reply.confidence

\* C18: the credibility delta of every verdict returned is in -25..25,
\* whichever tier made it, the LLM tier included.
C18_DeltaBounded ==
    \A p \in Procs :
        (pc[p] = "done" /\ resp[p].kind = "ok")
        => resp[p].v.penalty \in (0 - PenaltyCap)..PenaltyCap

C19Rewarded(p) ==
    /\ req[p].handler = "av" /\ loc[p].cred >= 100 /\ loc[p].v.penalty < 0
    /\ pc[p] \in {"store", "delete", "ledger", "final"}

\* C19: a reward for a reporter whose score is 100 is a no-op: no ledger
\* write is made and the stored score stays 100.
C19_NoRewardAtMax ==
    [][ \A p \in Procs :
          C19Rewarded(p)
          => /\ ledger = Stored(100) /\ ledger' = ledger
             /\ pc[p] = "ledger" => ~loc'[p].wrote ]_vars

\* the second request of a reporter at 100 earned a reward, and nothing was written
C19_Witness ==
    \E p \in Procs :
        /\ Done(p, "av") /\ nreq = 2 /\ resp[p].kind = "ok"
        /\ resp[p].old = 100 /\ resp[p].v.penalty < 0
        /\ ~loc[p].wrote /\ ledger = Stored(100)

EscDowngraded == esc.done /\ esc.in.base.risk = "High" /\ esc.out.predicted_risk # "High"

\* C20 as stated: a High base prediction is downgraded only when no safety
\* vocabulary is present, the unknown-category ratio exceeds 30%, the
\* description has fewer than 8 words and no violence vocabulary is present.
C20_DowngradeOnlyWhenUnreliable ==
    EscDowngraded
    => /\ ~EscSafetyVocabulary(esc.in.description)
       /\ EscManyUnknown /\ EscShort
       /\ ~Hit(esc.in.description, violence_keywords)

\* C20 as amended: a High base prediction is downgraded exactly when no
\* safety vocabulary and no violence vocabulary is present and either the
\* unknown-category ratio exceeds 30% with fewer than 8 words, or generic
\* noise vocabulary is present; otherwise it stays High.
C20_DowngradeCases ==
    (esc.done /\ esc.in.base.risk = "High")
    => (esc.out.predicted_risk # "High"
        <=> /\ ~EscSafetyVocabulary(esc.in.description)
            /\ ~Hit(esc.in.description, violence_keywords)
            /\ \/ EscManyUnknown /\ EscShort
               \/ Hit(esc.in.description, generic_keywords))

\* a noise complaint of 9 words with no unknown category was downgraded to Low
C20_Witness ==
    /\ EscDowngraded /\ esc.in.unknown = 0 /\ ~EscShort
    /\ Hit(esc.in.description, generic_keywords)
    /\ esc.out.predicted_risk = "Low"

-----------------------------------------------------------------------------
(* Claims C21..C30 *)

\* a description with generic noise vocabulary and none of the violence,
\* child-safety or life-threatening vocabulary
EscNoiseOnly(d) ==
    /\ Hit(d, generic_keywords)
    /\ ~Hit(d, violence_keywords)
    /\ ~EscSafetyVocabulary(d)

\* C21: for a description with generic noise vocabulary and no violence,
\* child-safety or life-threatening vocabulary the result is never High, and
\* a High base prediction comes out as Low with confidence 0.60 (below 0.8)
\* and a probability vector with P(Low) > P(High).
C21_NoiseComplaintNeverHigh ==
    (esc.done /\ EscNoiseOnly(esc.in.description))
    => /\ esc.out.predicted_risk # "High"
       /\ esc.in.base.risk = "High"
          => /\ esc.out.predicted_risk = "Low"
             /\ esc.out.confidence = 60 /\ esc.out.confidence < 80
             /\ esc.out.probabilities.Low > esc.out.probabilities.High

\* a short noise complaint predicted High at 99% by the base model came out Low
C21_Witness ==
    /\ esc.done /\ EscNoiseOnly(esc.in.description)
    /\ esc.in.description.words = 5
    /\ esc.in.base.risk = "High" /\ esc.in.base.confidence = 99
    /\ esc.out.predicted_risk = "Low" /\ esc.out.was_overridden

\* C22: the heuristic scorer returns a penalty in 0..25, and the returned
\* confidence and suspicious flag agree with that returned penalty:
\* confidence = min(0.20 + 0.03 x penalty, 0.95), suspicious = (penalty >= 8).
C22Consistent(out) ==
    /\ out.penalty \in 0..PenaltyCap
    /\ out.confidence = Min(20 + 3 * out.penalty, 95)
    /\ out.is_suspicious = (out.penalty >= SuspiciousAt)

C22_ScorerResultConsistent ==
    qf.done => C22Consistent(qf.outa) /\ C22Consistent(qf.outb)

\* the checks of a text added up to more than the cap: penalty 25, confidence 0.95
C22_Witness ==
    /\ qf.done /\ RawPenalty(qf.in.a, qf.in.score) > PenaltyCap
    /\ qf.outa.penalty = PenaltyCap /\ qf.outa.confidence = 95

\* the checks of _quick_fake_check that a text triggers (app.py 1292-1429)
Triggered(t, score) ==
    LET On(cond, name) == IF cond THEN {name} ELSE {}
    IN  On(t.words <= 5 /\ t.lowVowel, "low vowel ratio")
        \cup On(t.words <= 5 /\ t.clusters, "consonant clusters")
        \cup On(t.words <= 5 /\ t.oddWords, "unrecognizable words")
        \cup On(t.words < 5, "extremely brief")
        \cup On(t.words >= 5 /\ t.words < 10, "very short")
        \cup On(Hit(t, joke_keywords), "joke")
        \cup (t.toks \cap implausible_patterns)
        \cup On(t.contradiction, "contradiction")
        \cup On(t.punct, "punctuation")
        \cup On(t.caps, "capitalization")
        \cup On(t.vague, "vague")
        \cup On(Hit(t, disclaimer_phrases), "disclaimer")
        \cup On(score < 25, "low credibility")
        \cup On(~Hit(t, crime_keywords) /\ t.words >= 5, "no crime keyword")
        \cup On(~Hit(t, crime_keywords) /\ t.words >= 5 /\ Hit(t, non_crime_keywords),
                "non-crime keyword")

\* C23: the penalty is monotone in the set of triggered checks: when the
\* checks triggered by one text are among those triggered by another, its
\* penalty is not larger, and if it is suspicious so is the other.
C23_PenaltyMonotone ==
    (qf.done /\ Triggered(qf.in.a, qf.in.score) \subseteq Triggered(qf.in.b, qf.in.score))
    => /\ qf.outa.penalty <= qf.outb.penalty
       /\ qf.outa.is_suspicious => qf.outb.is_suspicious

\* a text below the threshold and the same text with more checks triggered,
\* which is suspicious
C23_Witness ==
    /\ qf.done
    /\ Triggered(qf.in.a, qf.in.score) \subseteq Triggered(qf.in.b, qf.in.score)
    /\ Triggered(qf.in.a, qf.in.score) # Triggered(qf.in.b, qf.in.score)
    /\ Triggered(qf.in.a, qf.in.score) # {}
    /\ qf.outa.penalty < qf.outb.penalty
    /\ ~qf.outa.is_suspicious /\ qf.outb.is_suspicious

\* a description with weapon vocabulary and no fraud, kidnapping,
\* sexual-violence, robbery-verb or theft-noun vocabulary
WeaponAlone(t) ==
    /\ Hit(t, pct_weapon_keywords) /\ Hit(t, aec_weapon_keywords)
    /\ ~Hit(t, pct_fraud_keywords)
    /\ ~Hit(t, pct_kidnapping_keywords) /\ ~Hit(t, aec_kidnapping_keywords)
    /\ ~Hit(t, aec_missing_child)
    /\ ~Hit(t, pct_rape_keywords) /\ ~Hit(t, aec_rape_keywords)
    /\ ~Hit(t, pct_robbery_keywords) /\ ~Hit(t, aec_robbery_keywords)
    /\ ~Hit(t, pct_theft_keywords) /\ ~Hit(t, aec_theft_keywords)

\* C24: a text with weapon vocabulary alone is classified as Assault by
\* predict_crime_type and by auto_extract_and_classify alike.
C24_WeaponAloneIsAssault ==
    WeaponAlone(ct.in.text)
    => /\ ct.pct_done => ct.pct.crime_type = "Assault"
       /\ ct.aec_done => ct.aec.auto_crime_type = "Assault"

\* an upgrade fires when safety vocabulary meets a base risk that is not High
EscUpgraded ==
    EscSafetyVocabulary(esc.in.description) /\ esc.in.base.risk # "High"

\* C25: when neither an upgrade nor a downgrade fires, the base prediction's
\* risk level and probability vector are returned unchanged and the
\* confidence is max(0.30, base confidence - 0.15 x unknown categories).
C25_PassThrough ==
    (esc.done /\ ~EscUpgraded /\ ~esc.out.was_overridden)
    => /\ esc.out.predicted_risk = esc.in.base.risk
       /\ esc.out.probabilities = esc.in.base.probabilities
       /\ esc.out.confidence = Max(30, esc.in.base.confidence - 15 * esc.in.unknown)

\* a Medium prediction at 0.50 with three unknown categories passed through
\* with the confidence at its floor
C25_Witness ==
    /\ esc.done /\ ~EscUpgraded /\ ~esc.out.was_overridden
    /\ esc.in.base.risk = "Medium" /\ esc.in.base.confidence = 50
    /\ esc.in.unknown = 3
    /\ esc.out.predicted_risk = "Medium" /\ esc.out.confidence = 30

RECURSIVE C26Pow2(_)
C26Pow2(n) == IF n = 0 THEN 1 ELSE 2 * C26Pow2(n - 1)

\* C26: the wait before the k-th retry is initial_wait x 2^(k-1); each wait
\* follows a rate-limited failure and is followed by another attempt, so
\* there is none before the first attempt and none after the last failure;
\* the wrapper is still running (its caller has no result) while it waits.
C26_ExponentialBackoff ==
    /\ rt.s.calls = 0 => rt.s.slept = <<>>
    /\ \A k \in 1..Len(rt.s.slept) :
          /\ rt.s.slept[k] = rt.s.initial_wait * C26Pow2(k - 1)
          /\ k <= Len(rt.outs) /\ RateLimited(rt.outs[k])
          /\ k < Len(rt.outs) \/ rt.s.status = "running"
    /\ rt.s.status = "running" => Len(rt.s.slept) = rt.s.calls
    /\ rt.s.status \in {"returned", "raised"} => Len(rt.s.slept) = rt.s.calls - 1

\* three rate-limited failures with initial_wait 2 were followed by waits of
\* 2, 4 and 8, and the fourth failure was raised with no further wait
C26_Witness ==
    /\ rt.s.status = "raised" /\ rt.s.initial_wait = 2
    /\ rt.s.calls = 4 /\ RateLimited(rt.s.error)
    /\ rt.s.slept = <<2, 4, 8>>

C28Present == ExistingReport \in reports \cup flagged

\* a report leaves reports only when flagged_reports already holds it
C28Order == \A r \in reports \ reports' : r \in flagged

\* the stores change only in a step of a request whose verdict is fake
C28Genuine ==
    (flagged' # flagged \/ reports' # reports)
    => \E p \in Procs :
          /\ pc'[p] # pc[p] /\ req[p].handler = "av" /\ loc[p].v.is_fake

\* C28: a report judged fake is deleted from reports only after it was
\* written to flagged_reports, so that in every state, also after a failed
\* write or delete, it is in at least one of the two stores; a report judged
\* genuine is neither written to flagged_reports nor deleted from reports.
C28_MoveKeepsReport == []C28Present /\ [][C28Order /\ C28Genuine]_vars

\* the existing report was judged fake and moved: it is in flagged_reports
\* and no longer in reports
C28_Witness ==
    \E p \in Procs :
        /\ Done(p, "av") /\ req[p].rid = ExistingReport /\ loc[p].v.is_fake
        /\ ExistingReport \in flagged /\ ExistingReport \notin reports

\* the verdict of an auto_verify_report request has been produced with delta 0
C30ZeroDelta(p) ==
    /\ req[p].handler = "av" /\ loc[p].v.penalty = 0
    /\ pc[p] \in {"store", "delete", "ledger", "final"}

\* the reporter's ledger entry as the request read it
C30AsRead(p) == IF loc[p].had THEN Stored(loc[p].cred) ELSE NoScore

\* C30: in auto_verify_report a verdict with delta 0 (the safety verdict, an
\* ML verdict of the band without reward or penalty) causes no ledger write
\* and leaves the entry as it was read; a step of the handler changes the
\* ledger only when the verdict produced has a non-zero delta.
C30_ZeroDeltaWritesNothing ==
    [][ \A p \in Procs :
          /\ C30ZeroDelta(p)
             => /\ ledger = C30AsRead(p) /\ ledger' = ledger
                /\ pc[p] = "ledger" => ~loc'[p].wrote
          /\ (req[p].handler = "av" /\ pc'[p] # pc[p] /\ ledger' # ledger)
             => loc[p].v.penalty # 0 ]_vars

\* with the classifier loaded, a report with weapon vocabulary got the
\* safety verdict and the request ended without a ledger write
C30_Witness ==
    \E p \in Procs :
        /\ Done(p, "av") /\ resp[p].kind = "ok"
        /\ resp[p].v.method = "safety-heuristics" /\ resp[p].v.penalty = 0
        /\ ~loc[p].wrote /\ ledger = C30AsRead(p)

\* the artifacts are loaded at most once
C29Once == ll.loads <= 1

\* a call begun after an attempt has finished returns what that attempt
\* returned, without loading
C29Stable ==
    \A c \in Procs :
        (ll.pc[c] = "done" /\ ll.late[c]) => (ll.ret[c] = ll.first /\ ~ll.loaded[c])

\* no caller was told that the model is unavailable when the load succeeded
C29Told ==
    \A c \in Procs :
        ~(ll.pc[c] = "done" /\ ll.ret[c] = "false" /\ ll.g.model /\ ll.g.embedder)

\* C29: lazy_load_ml_model loads the artifacts at most once, every call
\* begun after the first attempt has finished returns that attempt's result
\* without loading (also after a failure between the model and the
\* embedder), and with concurrent first callers nobody is told that the
\* model is unavailable when the load succeeds.
C29_LoadOnceStableAnswer == C29Once /\ C29Stable /\ C29Told

=============================================================================
